---- MODULE Spec2Model ----
(***************************************************************************)
(* The search command of src/src/ycb.tsx: the React state of Command(),    *)
(* its handlers (handleSearchTextChange, handleEnterPress), the two async  *)
(* searches (performMeiliSearch, performSemanticSearch), the image         *)
(* hydration (fetchImage under Promise.all) and the token exchange of      *)
(* initializeMeiliSearch.  Every await on the network is a point where     *)
(* the function is suspended; the continuation up to the next network      *)
(* await (microtasks included) is one step.                                *)
(* The label of a result item (getMetadataDisplay) and the "Copy Image"     *)
(* action (handleCopyImage) have specifications of their own, SpecLabel    *)
(* and SpecCopy; FairSpec is Spec with every request answered.             *)
(***************************************************************************)
EXTENDS Integers, Sequences, FiniteSets, TLC

\* ---------------------------------------------------------------- bounds
MaxLoad == 3    \* entries the backends deliver in a session: requests times entries held

\* ------------------------------------------------------------- vocabulary
\* the texts typed into the search bar: the empty text, a white-space
\* one, and two texts that differ
Texts == {<<>>, <<" ">>, <<"a">>, <<"b">>}

Null == "null"
Absent == "undefined"
Throw == "throw"

\* String.prototype.trim on a text (a sequence of characters)
RECURSIVE TrimStart(_)
TrimStart(s) ==
    IF s = <<>> THEN s
    ELSE IF Head(s) = " " THEN TrimStart(Tail(s)) ELSE s

RECURSIVE TrimEnd(_)
TrimEnd(s) ==
    IF s = <<>> THEN s
    ELSE IF s[Len(s)] = " " THEN TrimEnd(SubSeq(s, 1, Len(s) - 1)) ELSE s

Trim(s) == TrimEnd(TrimStart(s))

\* a text of white space only (the empty text included)
WhitespaceOnly(s) == \A k \in 1..Len(s) : s[k] = " "

\* a text of which trim leaves nothing, as a forgotten trim sees it
IsBlankNoTrim(query) == query = <<>>

\* !query.trim(): the empty string is falsy
IsBlank(query) == Trim(query) = <<>>

\* Entries a knowledge base can hold.  e3 is not an image and already
\* carries an image field in the backend's answer.
AllEntries ==
    { [id |-> "e1", type |-> "image", image |-> Absent],
      [id |-> "e2", type |-> "image", image |-> Absent],
      [id |-> "e3", type |-> "text",  image |-> "backend.png"] }

\* the knowledge bases a session can run against; e1 and e2 are alike, so
\* those holding e2 without e1 add nothing
Catalogues ==
    {c \in SUBSET AllEntries :
        c # {} /\ ((\E e \in c : e.id = "e2") => (\E e \in c : e.id = "e1"))}

\* the batches a backend can answer with: entries of the knowledge base,
\* each at most once, in any order
IsBatch(b) == \A j, k \in 1..Len(b) : b[j].id = b[k].id => j = k
BatchesOf(entries) ==
    {b \in UNION {[1..n -> entries] : n \in 0..Cardinality(entries)} : IsBatch(b)}

\* answers of the hosted index to searchClient.search: an error, or hits
IndexResponsesOf(entries) ==
    {[ok |-> FALSE, hits |-> <<>>]} \cup {[ok |-> TRUE, hits |-> b] : b \in BatchesOf(entries)}
IndexResponseTable == [c \in Catalogues |-> IndexResponsesOf(c)]

\* answers of POST /search: a transport failure, or a status and a body
Statuses == {200, 401, 500}
ResponseOk(status) == status >= 200 /\ status <= 299
SearchFailures ==
    {[net |-> FALSE, status |-> 0, body |-> <<>>]}
    \cup {[net |-> TRUE, status |-> s, body |-> <<>>] : s \in {t \in Statuses : ~ResponseOk(t)}}
SearchResponsesOf(entries) ==
    SearchFailures
    \cup {[net |-> TRUE, status |-> s, body |-> b] :
             s \in {t \in Statuses : ResponseOk(t)}, b \in BatchesOf(entries)}
SearchResponseTable == [c \in Catalogues |-> SearchResponsesOf(c)]

\* answers of POST /fetchImagesByIDs
ImageResponses == {"urls", "malformed", "network"}

\* answers of POST /token
TokenResponses == {"token", "error", "network"}

\* ------------------------------------------------------- source labels
TruncateAt == 30    \* metadata.author.length > 30

\* the texts the display tests for and produces, and the parts Authors is
\* built from
Domain == <<"y", "o", "u", "r", "c", "o", "m", "m", "o", "n", "b", "a", "s", "e", ".", "c", "o", "m">>
YourCommonbase == <<"Y", "o", "u", "r", " ", "C", "o", "m", "m", "o", "n", "b", "a", "s", "e">>
Www == <<"w", "w", "w", ".">>
Ellipsis == <<".", ".", ".">>
Https == <<"h", "t", "t", "p", "s">>
Http == <<"h", "t", "t", "p">>
MailTo == <<"m", "a", "i", "l", "t", "o", ":">>
Slashes == <<"/", "/">>
ExampleHost == <<"e", "x", ".", "c", "o", "m">>
Api == <<"a", "p", "i", ".">>
UpperWww == <<"W", "W", "W", ".">>
UpperDomain == <<"Y">> \o Tail(Domain)
Jane == <<"J", "a", "n", "e", " ", "D", "o", "e">>

\* String.prototype.includes, indexOf (0 when absent, else the position of
\* the first occurrence counted from 1), replace with a string pattern
\* (the first occurrence only) and substring
Includes(s, p) ==
    \E k \in 0..(Len(s) - Len(p)) : SubSeq(s, k + 1, k + Len(p)) = p
IndexOf(s, p) ==
    IF Includes(s, p)
    THEN CHOOSE k \in 1..(Len(s) - Len(p) + 1) :
            /\ SubSeq(s, k, k + Len(p) - 1) = p
            /\ \A j \in 1..(k - 1) : SubSeq(s, j, j + Len(p) - 1) # p
    ELSE 0
Replace(s, p, r) ==
    IF IndexOf(s, p) = 0 THEN s
    ELSE SubSeq(s, 1, IndexOf(s, p) - 1) \o r
            \o SubSeq(s, IndexOf(s, p) + Len(p), Len(s))
Substring(s, from, to) ==
    SubSeq(s, from + 1, IF to < Len(s) THEN to ELSE Len(s))

\* the characters the URL parser lowers in a host, among those of Authors
LowerOf == ("W" :> "w") @@ ("Y" :> "y")
ToLowerCase(s) ==
    [k \in 1..Len(s) |-> IF s[k] \in DOMAIN LowerOf THEN LowerOf[s[k]] ELSE s[k]]
SchemeChars == {"a", "c", "e", "h", "i", "l", "m", "o", "p", "s", "t"}
SpecialSchemes == {Https, Http}

\* the text before the first ":" when it is a scheme, else the empty text
SchemeOf(s) ==
    IF \E k \in 2..Len(s) :
          s[k] = ":" /\ \A j \in 1..(k - 1) : s[j] \in SchemeChars
    THEN SubSeq(s, 1, (CHOOSE k \in 2..Len(s) :
                          s[k] = ":" /\ \A j \in 1..(k - 1) : s[j] # ":") - 1)
    ELSE <<>>

\* the text up to the first "/", "?" or "#"
UpToPath(s) ==
    IF \E k \in 1..Len(s) : s[k] \in {"/", "?", "#"}
    THEN SubSeq(s, 1, (CHOOSE k \in 1..Len(s) :
                          /\ s[k] \in {"/", "?", "#"}
                          /\ \A j \in 1..(k - 1) : s[j] \notin {"/", "?", "#"}) - 1)
    ELSE s

RECURSIVE SkipSlashes(_)
SkipSlashes(s) ==
    IF s # <<>> /\ Head(s) = "/" THEN SkipSlashes(Tail(s)) ELSE s

\* new URL(input), for inputs without port, credentials or escapes: the
\* input is trimmed; without a scheme it throws; after http: or https: the
\* slashes are skipped and the host must be non-empty and free of spaces;
\* after another scheme the host is what follows "//", and is empty when
\* the rest is an opaque path; the host is lowered
NewURL(input) ==
    LET s == Trim(input)
        scheme == SchemeOf(s)
        rest == SubSeq(s, Len(scheme) + 2, Len(s))
        host == UpToPath(SkipSlashes(rest))
    IN  IF scheme = <<>> THEN [ok |-> FALSE]
        ELSE IF scheme \in SpecialSchemes
        THEN IF host = <<>> \/ Includes(host, <<" ">>)
             THEN [ok |-> FALSE]
             ELSE [ok |-> TRUE, hostname |-> ToLowerCase(host)]
        ELSE IF Substring(rest, 0, Len(Slashes)) = Slashes
        THEN IF Includes(UpToPath(SubSeq(rest, 3, Len(rest))), <<" ">>)
             THEN [ok |-> FALSE]
             ELSE [ok |-> TRUE, hostname |-> UpToPath(SubSeq(rest, 3, Len(rest)))]
        ELSE [ok |-> TRUE, hostname |-> <<>>]

\* the authors of the entries displayed: URLs with and without scheme,
\* "www." and path, with hosts shorter and longer than TruncateAt, and texts
\* that are no URL
LongRun == [k \in 1..TruncateAt |-> "a"]
Schemes == {<<>>, Https \o <<":">> \o Slashes, Http \o <<":">> \o Slashes, MailTo}
Hosts ==
    {ExampleHost, Www \o ExampleHost, Api \o Www \o ExampleHost,
     UpperWww \o ExampleHost, Domain, Api \o Domain, UpperDomain,
     LongRun \o ExampleHost, Www \o LongRun \o ExampleHost}
Paths == {<<>>, <<"/", "p">>}
RawAuthors ==
    {<<>>, Jane, LongRun, LongRun \o <<"b">>, LongRun \o Ellipsis,
     Jane \o <<" ">> \o LongRun, Jane \o <<" ">> \o Domain,
     SubSeq(Https \o <<":">> \o Slashes \o LongRun, 1, TruncateAt) \o <<" ", "b">>}
Authors == {s \o h \o p : s \in Schemes, h \in Hosts, p \in Paths} \cup RawAuthors
Metadatas == {[type |-> "text"]} \cup {[type |-> "text", author |-> a] : a \in Authors}

\* a display that appends the ellipsis whatever the length
getMetadataDisplayEllipsis(metadata) ==
    IF "author" \notin DOMAIN metadata \/ metadata.author = <<>> THEN <<>>
    ELSE IF Includes(metadata.author, Domain) THEN YourCommonbase
    ELSE IF NewURL(metadata.author).ok
    THEN Replace(NewURL(metadata.author).hostname, Www, <<>>)
    ELSE Substring(metadata.author, 0, TruncateAt) \o Ellipsis

\* getMetadataDisplay: both the try and the catch test for the domain
\* first, so the test comes before the parse
getMetadataDisplay(metadata) ==
    IF "author" \notin DOMAIN metadata \/ metadata.author = <<>> THEN <<>>
    ELSE IF Includes(metadata.author, Domain) THEN YourCommonbase
    ELSE IF NewURL(metadata.author).ok
    THEN Replace(NewURL(metadata.author).hostname, Www, <<>>)
    ELSE IF Len(metadata.author) > TruncateAt
    THEN Substring(metadata.author, 0, TruncateAt) \o Ellipsis
    ELSE metadata.author

VARIABLES
    catalogue,                \* the entries the knowledge base holds
    searchText,               \* useState("")
    semanticResults,          \* useState([])
    isLoadingSemanticSearch,  \* useState(false)
    searchClient,             \* useState(null)
    meiliSearchResults,       \* useState([])
    isLoadingMeiliSearch,     \* useState(false)
    tokenRequest,             \* position of initializeMeiliSearch
    toast,                    \* the failure toast on display
    reqs,                     \* the search requests issued, in order of issue
    lastEvent,                \* what the last step handled
    item,                     \* a result item and the label displayed for it
    copy                      \* position and effects of handleCopyImage

vars == <<catalogue, searchText, semanticResults, isLoadingSemanticSearch,
          searchClient, meiliSearchResults, isLoadingMeiliSearch, tokenRequest,
          toast, reqs, lastEvent, item, copy>>

lexicalVars == <<meiliSearchResults, isLoadingMeiliSearch>>
semanticVars == <<semanticResults, isLoadingSemanticSearch>>
sessionVars == <<catalogue, searchText, searchClient, tokenRequest>>
searchVars == <<catalogue, searchText, semanticResults, isLoadingSemanticSearch,
                searchClient, meiliSearchResults, isLoadingMeiliSearch,
                tokenRequest, toast, reqs, lastEvent>>

\* ------------------------------------------------------------ hydration
\* an image fetched for every hit
NeedsImageAlways(hit) == TRUE

\* hit.metadata.type === "image"
NeedsImage(hit) == hit.type = "image"

\* fetchImage without its try/catch: a failure is thrown to the caller
fetchImagePropagating(id, resp) ==
    IF resp = "urls" THEN "url:" \o id ELSE Throw

\* fetchImage: the url of the answer, undefined on any failure
fetchImage(id, resp) ==
    IF resp = "urls" THEN "url:" \o id ELSE Absent

\* a request in flight: awaiting the search answer ("search") or the image
\* answers of its batch ("images"); fetched lists the image answers in the
\* order of their completion
NewReq(kind, query) ==
    [kind |-> kind, query |-> query, stage |-> "search", hits |-> <<>>, fetched |-> <<>>]

\* a request that has completed
Done == [stage |-> "done"]

\* the completion of request r: stored or failed; had tells whether the
\* result sequence it wrote was non-empty before
Settled(r, stage, had) ==
    [kind |-> r.kind, query |-> r.query, stage |-> stage, hits |-> r.hits,
     fetched |-> r.fetched, had |-> had]

InFlight(r) == r.stage \in {"search", "images"}

\* events other than the completion of a request
NoEvent == [stage |-> "none"]
Typed(cleared) == [stage |-> "typed", cleared |-> cleared]
Called(query) == [stage |-> "called", query |-> query]

\* hits of a batch whose image was, or is being, fetched
FetchedIdx(r) == {r.fetched[k].idx : k \in 1..Len(r.fetched)}
Pending(r) == {j \in 1..Len(r.hits) : NeedsImage(r.hits[j])} \ FetchedIdx(r)

ImageOf(fetched, j) ==
    LET k == CHOOSE k \in 1..Len(fetched) : fetched[k].idx = j IN fetched[k].image

\* results collected as the mapped promises settle: the hits that need no
\* image first, then the others in the order their image arrived
PromiseAllAsSettled(hits, fetched) ==
    SelectSeq(hits, LAMBDA h : ~NeedsImage(h))
    \o [k \in 1..Len(fetched) |->
           [hits[fetched[k].idx] EXCEPT !.image = fetched[k].image]]

\* Promise.all(hits.map(...)): one result per hit, at the hit's position
PromiseAll(hits, fetched) ==
    [j \in 1..Len(hits) |->
        IF NeedsImage(hits[j])
        THEN [hits[j] EXCEPT !.image = ImageOf(fetched, j)]
        ELSE hits[j]]

\* one of the mapped promises has rejected
Rejected(fetched) == \E k \in 1..Len(fetched) : fetched[k].image = Throw

\* ----------------------------------------------------------------- Init
\* no item is singled out, no copy is under way
Idle == [stage |-> "idle"]

InitSearch ==
    /\ catalogue \in Catalogues
    /\ searchText = <<>>
    /\ semanticResults = <<>>
    /\ isLoadingSemanticSearch = FALSE
    /\ searchClient = Null
    /\ meiliSearchResults = <<>>
    /\ isLoadingMeiliSearch = FALSE
    /\ tokenRequest = "pending"
    /\ toast = "none"
    /\ reqs = <<>>
    /\ lastEvent = NoEvent

Init ==
    /\ InitSearch
    /\ item = Idle
    /\ copy = Idle

\* search requests a session issues at most
RequestCap == MaxLoad \div Cardinality(catalogue)

IndexResponses == IndexResponseTable[catalogue]
SearchResponses == SearchResponseTable[catalogue]

\* ------------------------------------------------ initializeMeiliSearch
\* getToken: throws when the call fails or the body has an error field
getToken(resp) == IF resp = "token" THEN "token" ELSE Throw

\* an exchange that runs again after it has built the client
initializeMeiliSearchRenewing(resp) ==
    /\ tokenRequest = "pending"
    /\ IF getToken(resp) # Throw
       THEN /\ searchClient' = "client"
            /\ tokenRequest' = "pending"
            /\ UNCHANGED toast
       ELSE /\ toast' = "init"
            /\ tokenRequest' = "failed"
            /\ UNCHANGED searchClient
    /\ lastEvent' = NoEvent
    /\ UNCHANGED <<catalogue, searchText, reqs, lexicalVars, semanticVars>>

\* an exchange that, once the client is built, searches the text typed
initializeMeiliSearchSearching(resp) ==
    /\ tokenRequest = "pending"
    /\ IF getToken(resp) # Throw
       THEN /\ searchClient' = "client"
            /\ tokenRequest' = "done"
            /\ IF ~IsBlank(searchText) /\ Len(reqs) < MaxLoad \div Cardinality(catalogue)
               THEN /\ reqs' = Append(reqs, NewReq("lexical", searchText))
                    /\ isLoadingMeiliSearch' = TRUE
               ELSE UNCHANGED <<reqs, isLoadingMeiliSearch>>
            /\ UNCHANGED toast
       ELSE /\ toast' = "init"
            /\ tokenRequest' = "failed"
            /\ UNCHANGED <<searchClient, reqs, isLoadingMeiliSearch>>
    /\ lastEvent' = NoEvent
    /\ UNCHANGED <<catalogue, searchText, meiliSearchResults, semanticVars>>

\* POST /token answers
initializeMeiliSearch(resp) ==
    /\ tokenRequest = "pending"
    /\ IF getToken(resp) # Throw
       THEN /\ searchClient' = "client"
            /\ tokenRequest' = "done"
            /\ UNCHANGED toast
       ELSE /\ toast' = "init"
            /\ tokenRequest' = "failed"
            /\ UNCHANGED searchClient
    /\ lastEvent' = NoEvent
    /\ UNCHANGED <<catalogue, searchText, reqs, lexicalVars, semanticVars>>

\* ------------------------------------------------- performMeiliSearch
\* performMeiliSearch without the test of searchClient
performMeiliSearchUnguarded(query) ==
    IF IsBlank(query)
    THEN /\ meiliSearchResults' = <<>>
         /\ UNCHANGED <<isLoadingMeiliSearch, reqs>>
    ELSE /\ Len(reqs) < RequestCap
         /\ isLoadingMeiliSearch' = TRUE
         /\ reqs' = Append(reqs, NewReq("lexical", query))
         /\ UNCHANGED meiliSearchResults

\* up to the await of searchClient.search
performMeiliSearch(query) ==
    IF searchClient = Null \/ IsBlank(query)
    THEN /\ meiliSearchResults' = <<>>
         /\ UNCHANGED <<isLoadingMeiliSearch, reqs>>
    ELSE /\ Len(reqs) < RequestCap
         /\ isLoadingMeiliSearch' = TRUE
         /\ reqs' = Append(reqs, NewReq("lexical", query))
         /\ UNCHANGED meiliSearchResults

\* an answer applied only when its query is still the text typed
MeiliStoreLatestOnly(i, r) ==
    /\ meiliSearchResults' =
          IF r.query = searchText THEN PromiseAll(r.hits, r.fetched) ELSE meiliSearchResults
    /\ isLoadingMeiliSearch' = FALSE
    /\ reqs' = [reqs EXCEPT ![i] = Done]
    /\ lastEvent' = Settled(r, "stored", Len(meiliSearchResults) > 0)
    /\ UNCHANGED <<toast, semanticVars>>

\* setMeiliSearchResults(resultsWithImages), then finally
MeiliStore(i, r) ==
    /\ meiliSearchResults' = PromiseAll(r.hits, r.fetched)
    /\ isLoadingMeiliSearch' = FALSE
    /\ reqs' = [reqs EXCEPT ![i] = Done]
    /\ lastEvent' = Settled(r, "stored", Len(meiliSearchResults) > 0)
    /\ UNCHANGED <<toast, semanticVars>>

\* a catch that issues the failed request again
MeiliCatchRetrying(i, r) ==
    /\ meiliSearchResults' = <<>>
    /\ isLoadingMeiliSearch' = (Len(reqs) < RequestCap)
    /\ reqs' = IF Len(reqs) < RequestCap
               THEN Append([reqs EXCEPT ![i] = Done], NewReq("lexical", r.query))
               ELSE [reqs EXCEPT ![i] = Done]
    /\ lastEvent' = Settled(r, "failed", Len(meiliSearchResults) > 0)
    /\ UNCHANGED <<toast, semanticVars>>

\* a catch whose finally leaves the loading flag set
MeiliCatchStuck(i, r) ==
    /\ meiliSearchResults' = <<>>
    /\ reqs' = [reqs EXCEPT ![i] = Done]
    /\ lastEvent' = Settled(r, "failed", Len(meiliSearchResults) > 0)
    /\ UNCHANGED <<isLoadingMeiliSearch, toast, semanticVars>>

\* a catch that also shows a failure toast
MeiliCatchNotifying(i, r) ==
    /\ toast' = "lexical"
    /\ meiliSearchResults' = <<>>
    /\ isLoadingMeiliSearch' = FALSE
    /\ reqs' = [reqs EXCEPT ![i] = Done]
    /\ lastEvent' = Settled(r, "failed", Len(meiliSearchResults) > 0)
    /\ UNCHANGED semanticVars

\* catch, then finally
MeiliCatch(i, r) ==
    /\ meiliSearchResults' = <<>>
    /\ isLoadingMeiliSearch' = FALSE
    /\ reqs' = [reqs EXCEPT ![i] = Done]
    /\ lastEvent' = Settled(r, "failed", Len(meiliSearchResults) > 0)
    /\ UNCHANGED <<toast, semanticVars>>

\* the continuation after an await inside the try block
MeiliContinue(i, r) ==
    IF Rejected(r.fetched) THEN MeiliCatch(i, r)
    ELSE IF Pending(r) = {} THEN MeiliStore(i, r)
    ELSE /\ reqs' = [reqs EXCEPT ![i] = [r EXCEPT !.stage = "images"]]
         /\ lastEvent' = NoEvent
         /\ UNCHANGED <<toast, lexicalVars, semanticVars>>

\* the index answers a lexical request
MeiliResponse(i, resp) ==
    /\ reqs[i].stage = "search"
    /\ reqs[i].kind = "lexical"
    /\ IF resp.ok
       THEN MeiliContinue(i, [reqs[i] EXCEPT !.hits = resp.hits])
       ELSE MeiliCatch(i, reqs[i])
    /\ UNCHANGED sessionVars

\* ---------------------------------------------- performSemanticSearch
\* performSemanticSearch resetting the lexical section when it dispatches
performSemanticSearchResetting(query) ==
    /\ IF IsBlank(query)
       THEN /\ semanticResults' = <<>>
            /\ UNCHANGED <<isLoadingSemanticSearch, reqs>>
       ELSE /\ Len(reqs) < RequestCap
            /\ isLoadingSemanticSearch' = TRUE
            /\ reqs' = Append(reqs, NewReq("semantic", query))
            /\ UNCHANGED semanticResults
    /\ meiliSearchResults' = <<>>
    /\ UNCHANGED <<toast, isLoadingMeiliSearch>>

\* up to the await of fetch(/search)
performSemanticSearch(query) ==
    /\ IF IsBlank(query)
       THEN /\ semanticResults' = <<>>
            /\ UNCHANGED <<isLoadingSemanticSearch, reqs>>
       ELSE /\ Len(reqs) < RequestCap
            /\ isLoadingSemanticSearch' = TRUE
            /\ reqs' = Append(reqs, NewReq("semantic", query))
            /\ UNCHANGED semanticResults
    /\ UNCHANGED <<toast, lexicalVars>>

\* setSemanticResults(resultsWithImages), then finally
SemanticStore(i, r) ==
    /\ semanticResults' = PromiseAll(r.hits, r.fetched)
    /\ isLoadingSemanticSearch' = FALSE
    /\ reqs' = [reqs EXCEPT ![i] = Done]
    /\ lastEvent' = Settled(r, "stored", Len(semanticResults) > 0)
    /\ UNCHANGED <<toast, lexicalVars>>

\* a catch that notifies and leaves the results displayed
SemanticCatchKeeping(i, r) ==
    /\ toast' = "semantic"
    /\ isLoadingSemanticSearch' = FALSE
    /\ reqs' = [reqs EXCEPT ![i] = Done]
    /\ lastEvent' = Settled(r, "failed", Len(semanticResults) > 0)
    /\ UNCHANGED <<semanticResults, lexicalVars>>

\* catch, then finally
SemanticCatch(i, r) ==
    /\ toast' = "semantic"
    /\ semanticResults' = <<>>
    /\ isLoadingSemanticSearch' = FALSE
    /\ reqs' = [reqs EXCEPT ![i] = Done]
    /\ lastEvent' = Settled(r, "failed", Len(semanticResults) > 0)
    /\ UNCHANGED lexicalVars

\* the continuation after an await inside the try block
SemanticContinue(i, r) ==
    IF Rejected(r.fetched) THEN SemanticCatch(i, r)
    ELSE IF Pending(r) = {} THEN SemanticStore(i, r)
    ELSE /\ reqs' = [reqs EXCEPT ![i] = [r EXCEPT !.stage = "images"]]
         /\ lastEvent' = NoEvent
         /\ UNCHANGED <<toast, lexicalVars, semanticVars>>

\* POST /search answers a semantic request
SemanticResponse(i, resp) ==
    /\ reqs[i].stage = "search"
    /\ reqs[i].kind = "semantic"
    /\ IF resp.net /\ ResponseOk(resp.status)
       THEN SemanticContinue(i, [reqs[i] EXCEPT !.hits = resp.body])
       ELSE SemanticCatch(i, reqs[i])
    /\ UNCHANGED sessionVars

\* ------------------------------------------------------ image answers
\* POST /fetchImagesByIDs answers for hit j of request i
ImageResponse(i, j, resp) ==
    /\ reqs[i].stage = "images"
    /\ j \in Pending(reqs[i])
    /\ LET f == [idx |-> j, image |-> fetchImage(reqs[i].hits[j].id, resp)]
           r == [reqs[i] EXCEPT !.fetched = Append(@, f)]
       IN  IF r.kind = "lexical" THEN MeiliContinue(i, r) ELSE SemanticContinue(i, r)
    /\ UNCHANGED sessionVars

\* ------------------------------------------------------------ handlers
\* a text change that leaves the semantic section alone
handleSearchTextChangeKeeping(text) ==
    /\ text # searchText
    /\ searchText' = text
    /\ performMeiliSearch(text)
    /\ lastEvent' = Typed(Len(semanticResults) > 0)
    /\ UNCHANGED <<catalogue, semanticVars, searchClient, tokenRequest, toast>>

handleSearchTextChange(text) ==
    /\ text # searchText
    /\ searchText' = text
    /\ performMeiliSearch(text)
    /\ IF Len(semanticResults) > 0
       THEN semanticResults' = <<>>
       ELSE UNCHANGED semanticResults
    /\ lastEvent' = Typed(Len(semanticResults) > 0)
    /\ UNCHANGED <<catalogue, isLoadingSemanticSearch, searchClient, tokenRequest, toast>>

\* the "No Results" section of the list
NoResultsShown ==
    /\ Len(searchText) > 0
    /\ Len(meiliSearchResults) = 0
    /\ Len(semanticResults) = 0
    /\ ~isLoadingMeiliSearch
    /\ ~isLoadingSemanticSearch

\* an item carrying the action bound to handleEnterPress is displayed
SemanticActionShown == Len(meiliSearchResults) > 0 \/ NoResultsShown

handleEnterPress ==
    /\ SemanticActionShown
    /\ IF ~IsBlank(searchText)
       THEN /\ performSemanticSearch(searchText)
            /\ lastEvent' = NoEvent
            /\ UNCHANGED sessionVars
       ELSE UNCHANGED vars
    /\ UNCHANGED <<item, copy>>

\* ------------------------------------------------------ specifications
TokenStep ==
    /\ \E resp \in TokenResponses : initializeMeiliSearch(resp)
    /\ UNCHANGED <<item, copy>>
TypeStep ==
    /\ \E text \in Texts : handleSearchTextChange(text)
    /\ UNCHANGED <<item, copy>>
MeiliStep ==
    /\ \E i \in 1..Len(reqs) :
        /\ reqs[i].stage = "search"
        /\ \E resp \in IndexResponses : MeiliResponse(i, resp)
    /\ UNCHANGED <<item, copy>>
SemanticStep ==
    /\ \E i \in 1..Len(reqs) :
        /\ reqs[i].stage = "search"
        /\ \E resp \in SearchResponses : SemanticResponse(i, resp)
    /\ UNCHANGED <<item, copy>>
ImageStep ==
    /\ \E i \in 1..Len(reqs) :
        /\ reqs[i].stage = "images"
        /\ \E j \in Pending(reqs[i]) : \E resp \in ImageResponses : ImageResponse(i, j, resp)
    /\ UNCHANGED <<item, copy>>

Next ==
    \/ TokenStep
    \/ TypeStep
    \/ handleEnterPress
    \/ MeiliStep
    \/ SemanticStep
    \/ ImageStep

Spec == Init /\ [][Next]_vars

\* Spec under the assumption that every request issued is answered: the
\* token exchange, each search call and each image fetch
FairSpec ==
    /\ Spec
    /\ WF_vars(TokenStep)
    /\ WF_vars(MeiliStep)
    /\ WF_vars(SemanticStep)
    /\ WF_vars(ImageStep)

\* performSemanticSearch called as a unit with a text handleEnterPress
\* never passes to it
CallPerformSemanticSearch(query) ==
    /\ WhitespaceOnly(query)
    /\ performSemanticSearch(query)
    /\ lastEvent' = Called(query)
    /\ UNCHANGED sessionVars

CallStep ==
    /\ \E query \in Texts : CallPerformSemanticSearch(query)
    /\ UNCHANGED <<item, copy>>

NextUnit == Next \/ CallStep

SpecUnit == Init /\ [][NextUnit]_vars

\* ---- the label of a result item: getMetadataDisplay applied to the
\* metadata of an item, then to metadata whose author is that label
InitLabel ==
    /\ InitSearch
    /\ catalogue = AllEntries
    /\ item \in {[stage |-> "input", metadata |-> m] : m \in Metadatas}
    /\ copy = Idle

ShowItem ==
    /\ item.stage = "input"
    /\ item' = [stage |-> "shown", metadata |-> item.metadata,
                display |-> getMetadataDisplay(item.metadata)]
    /\ UNCHANGED <<searchVars, copy>>

ShowLabel ==
    /\ item.stage = "shown"
    /\ item' = [item EXCEPT !.stage = "relabelled"] @@
                [again |-> getMetadataDisplay([type |-> "text", author |-> item.display])]
    /\ UNCHANGED <<searchVars, copy>>

NextLabel == ShowItem \/ ShowLabel

SpecLabel == InitLabel /\ [][NextLabel]_vars

\* ---- handleCopyImage: the "Copy Image" action of an item with an image.
\* The awaits are fetch, response.arrayBuffer and the two Clipboard.copy;
\* mkdtempSync and writeFileSync run in the step of arrayBuffer.
ImageUrls == {"url:e1", "url:e2"}
Png == <<"p", "n", "g">>
Gif == <<"g", "i", "f">>
Webp == <<"w", "e", "b", "p">>
ContentTypes == {<<>>, <<"i", "m", "a", "g", "e", "/">> \o Png, <<"i", "m", "a", "g", "e", "/">> \o Gif, <<"i", "m", "a", "g", "e", "/">> \o Webp, <<"i", "m", "a", "g", "e", "/">> \o <<"j", "p", "e", "g">>}

\* what fetch(imageUrl) gives: a rejection, or a response of any status,
\* which the code does not look at, with or without a content-type header
FetchResponses ==
    {[ok |-> FALSE]} \cup
    {[ok |-> TRUE, status |-> st] : st \in {200, 404}} \cup
    {[ok |-> TRUE, status |-> st, contentType |-> ct] :
        st \in {200, 404}, ct \in ContentTypes}

\* response.headers.get('content-type') || ''
HeaderOrEmpty(resp) ==
    IF "contentType" \in DOMAIN resp THEN resp.contentType ELSE <<>>

ExtensionOf(contentType) ==
    IF Includes(contentType, Png) THEN ".png"
    ELSE IF Includes(contentType, Gif) THEN ".gif"
    ELSE IF Includes(contentType, Webp) THEN ".webp"
    ELSE ".jpg"

BodyOutcomes == {"buffer", "error"}
FileOutcomes == {"written", "mkdtemp", "write"}
ClipboardOutcomes == {"copied", "error"}

\* a catch that logs and notifies but copies nothing
CopyCatchNoFallback(c) ==
    [c EXCEPT !.stage = "done", !.shown = @ \cup {"Failure"}]

\* the catch: the failure toast, then Clipboard.copy(imageUrl) is called
CopyCatch(c) ==
    [c EXCEPT !.stage = "fallback",
              !.shown = @ \cup {"Failure"},
              !.clipboard = Append(@, [text |-> c.imageUrl])]

handleCopyImage(imageUrl) ==
    /\ copy.stage = "idle"
    /\ copy' = [stage |-> "fetch", imageUrl |-> imageUrl, shown |-> {"Animated"},
                response |-> Idle, clipboard |-> <<>>, failedAt |-> "none"]
    /\ UNCHANGED <<searchVars, item>>

\* fetch(imageUrl) settles
CopyFetched(resp) ==
    /\ copy.stage = "fetch"
    /\ copy' = IF resp.ok
               THEN [copy EXCEPT !.stage = "body", !.response = resp]
               ELSE CopyCatch([copy EXCEPT !.failedAt = "download"])
    /\ UNCHANGED <<searchVars, item>>

\* response.arrayBuffer() settles; the file is written; Clipboard.copy of
\* the file is called
CopyBuffered(body, file) ==
    /\ copy.stage = "body"
    /\ copy' = IF body = "error"
               THEN CopyCatch([copy EXCEPT !.failedAt = "download"])
               ELSE IF file # "written"
               THEN CopyCatch([copy EXCEPT !.failedAt = "file"])
               ELSE [copy EXCEPT
                        !.stage = "clipboard",
                        !.clipboard = Append(@, [file |-> "ycb-/image" \o
                                           ExtensionOf(HeaderOrEmpty(copy.response))])]
    /\ UNCHANGED <<searchVars, item>>

\* Clipboard.copy({ file }) settles
CopyFileCopied(outcome) ==
    /\ copy.stage = "clipboard"
    /\ copy' = IF outcome = "copied"
               THEN [copy EXCEPT !.stage = "done", !.shown = @ \cup {"Success"}]
               ELSE CopyCatch([copy EXCEPT !.failedAt = "clipboard"])
    /\ UNCHANGED <<searchVars, item>>

\* Clipboard.copy(imageUrl) of the catch settles; a rejection is handled
\* nowhere
CopyUrlCopied(outcome) ==
    /\ copy.stage = "fallback"
    /\ copy' = [copy EXCEPT !.stage = IF outcome = "copied" THEN "done" ELSE "rejected"]
    /\ UNCHANGED <<searchVars, item>>

InitCopy ==
    /\ InitSearch
    /\ catalogue = AllEntries
    /\ item = Idle
    /\ copy = Idle

NextCopy ==
    \/ \E imageUrl \in ImageUrls : handleCopyImage(imageUrl)
    \/ \E resp \in FetchResponses : CopyFetched(resp)
    \/ \E body \in BodyOutcomes : \E file \in FileOutcomes : CopyBuffered(body, file)
    \/ \E outcome \in ClipboardOutcomes : CopyFileCopied(outcome)
    \/ \E outcome \in ClipboardOutcomes : CopyUrlCopied(outcome)

SpecCopy == InitCopy /\ [][NextCopy]_vars

TypeOK ==
    /\ catalogue \in Catalogues
    /\ searchText \in Texts
    /\ isLoadingMeiliSearch \in BOOLEAN
    /\ isLoadingSemanticSearch \in BOOLEAN
    /\ searchClient \in {Null, "client"}
    /\ tokenRequest \in {"pending", "done", "failed"}
    /\ Len(reqs) <= RequestCap
    /\ toast \in {"none", "init", "semantic"}

\* ================================================================ claims
IsSettled(kind, stage) ==
    lastEvent.stage = stage /\ lastEvent.kind = kind

\* C1: every query-text change leaves semanticResults empty in the state
\* that follows it, whatever it held before, and in that state the lexical
\* request the change dispatched is still waiting for its answer.
C1_TypingClearsSemantic ==
    [][\A text \in Texts :
          handleSearchTextChange(text) =>
              /\ semanticResults' = <<>>
              /\ Len(reqs') > Len(reqs) =>
                    reqs'[Len(reqs')] = NewReq("lexical", text)]_vars

\* a text change has just cleared a displayed semantic section and its
\* lexical request is in flight
C1_Witness ==
    /\ lastEvent = Typed(TRUE)
    /\ semanticResults = <<>>
    /\ Len(reqs) > 0
    /\ reqs[Len(reqs)] = NewReq("lexical", searchText)

\* C2: for a blank or whitespace-only text, performMeiliSearch and
\* performSemanticSearch each empty their result sequence, issue no request
\* (so no image fetch either) and leave their loading flag as it was.
C2_BlankShortCircuits ==
    [][\A q \in Texts :
          WhitespaceOnly(q) =>
              /\ handleSearchTextChange(q) =>
                    /\ meiliSearchResults' = <<>>
                    /\ reqs' = reqs
                    /\ isLoadingMeiliSearch' = isLoadingMeiliSearch
              /\ CallPerformSemanticSearch(q) =>
                    /\ semanticResults' = <<>>
                    /\ reqs' = reqs
                    /\ isLoadingSemanticSearch' = isLoadingSemanticSearch]_vars

\* both searches have run on a non-empty whitespace-only text, with a
\* search client set and an earlier lexical request still loading
C2_Witness ==
    /\ lastEvent.stage = "called"
    /\ Len(lastEvent.query) > 0
    /\ searchText = lastEvent.query
    /\ searchClient = "client"
    /\ meiliSearchResults = <<>>
    /\ semanticResults = <<>>
    /\ isLoadingMeiliSearch
    /\ ~isLoadingSemanticSearch

\* C3: when POST /search fails (no answer, or an answer whose status is
\* not 2xx) a failure toast is shown, semanticResults is empty afterwards
\* and meiliSearchResults is what it was.
SemanticFailure(resp) == ~resp.net \/ resp.status < 200 \/ resp.status > 299

C3_SemanticFailureClears ==
    [][\A i \in 1..Len(reqs) : \A resp \in SearchFailures :
          (SemanticFailure(resp) /\ SemanticResponse(i, resp)) =>
              /\ toast' = "semantic"
              /\ semanticResults' = <<>>
              /\ meiliSearchResults' = meiliSearchResults]_vars

\* a semantic search has just failed while both sections were displayed
C3_Witness ==
    /\ IsSettled("semantic", "failed")
    /\ lastEvent.had
    /\ semanticResults = <<>>
    /\ Len(meiliSearchResults) > 0
    /\ toast = "semantic"

\* C4: the semantic trigger, from its dispatch to its completion on either
\* outcome, changes neither meiliSearchResults nor searchText (nor the
\* lexical loading flag).
\* a semantic request is dispatched, or one in flight moves on
SemanticDispatched ==
    /\ Len(reqs') > Len(reqs)
    /\ reqs'[Len(reqs')].kind = "semantic"
SemanticAdvanced ==
    \E i \in 1..Len(reqs) :
        /\ InFlight(reqs[i])
        /\ reqs[i].kind = "semantic"
        /\ reqs'[i] # reqs[i]

C4_SemanticLeavesLexical ==
    [][(handleEnterPress \/ SemanticDispatched \/ SemanticAdvanced) =>
          /\ meiliSearchResults' = meiliSearchResults
          /\ searchText' = searchText
          /\ isLoadingMeiliSearch' = isLoadingMeiliSearch]_vars

\* a semantic search has stored its results next to displayed lexical ones
C4_Witness ==
    /\ IsSettled("semantic", "stored")
    /\ Len(semanticResults) > 0
    /\ Len(meiliSearchResults) > 0

\* ids of a result sequence, in order
ResultIds(res) == [j \in 1..Len(res) |-> res[j].id]

\* the result sequence the request of the last step wrote
SettledResults ==
    IF lastEvent.kind = "lexical" THEN meiliSearchResults ELSE semanticResults

AllDone == \A i \in 1..Len(reqs) : reqs[i] = Done

\* C5: a lexical request in flight is never cancelled or ignored: a text
\* change leaves every request in flight, and when the answer arrives its
\* hits are written to meiliSearchResults whatever the text typed by then.
C5_StaleAnswerApplied ==
    [][/\ \A text \in Texts :
             handleSearchTextChange(text) =>
                 \A i \in 1..Len(reqs) : reqs'[i] = reqs[i]
       /\ \A i \in 1..Len(reqs) :
             (InFlight(reqs[i]) /\ reqs[i].kind = "lexical" /\ reqs'[i] = Done) =>
                 /\ lastEvent'.stage \in {"stored", "failed"}
                 /\ lastEvent'.query = reqs[i].query
                 /\ lastEvent'.stage = "stored" =>
                       ResultIds(meiliSearchResults') = ResultIds(lastEvent'.hits)]_vars

\* the answer to an earlier text has just been written over the answer to
\* the text typed last, whose request had completed before
C5_Witness ==
    /\ IsSettled("lexical", "stored")
    /\ Len(meiliSearchResults) > 0
    /\ ResultIds(meiliSearchResults) = ResultIds(lastEvent.hits)
    /\ lastEvent.query # searchText
    /\ ~WhitespaceOnly(searchText)
    /\ searchClient = "client"
    /\ AllDone

\* C6: in both searches an image is requested for a hit only if its type
\* is "image"; a hit of any other type is stored as the backend returned
\* it, image field included.
C6_OnlyImagesHydrated ==
    /\ \A i \in 1..Len(reqs) :
          reqs[i].stage = "images" =>
              \A j \in FetchedIdx(reqs[i]) \cup Pending(reqs[i]) :
                  reqs[i].hits[j].type = "image"
    /\ lastEvent.stage = "stored" =>
          /\ Len(SettledResults) = Len(lastEvent.hits)
          /\ \A j \in 1..Len(lastEvent.hits) :
                lastEvent.hits[j].type # "image" =>
                    /\ SettledResults[j] = lastEvent.hits[j]
                    /\ j \notin FetchedIdx(lastEvent)

\* a semantic search has stored an image hit with its fetched url next to
\* a text hit that kept the image field of the backend
C6_Witness ==
    /\ IsSettled("semantic", "stored")
    /\ \E j, k \in 1..Len(semanticResults) :
          /\ lastEvent.hits[j].type = "image"
          /\ semanticResults[j].image = "url:" \o semanticResults[j].id
          /\ lastEvent.hits[k].type = "text"
          /\ semanticResults[k].image = "backend.png"

\* C7: when the index answers a lexical request with an error,
\* meiliSearchResults is emptied, isLoadingMeiliSearch is reset, no toast
\* is shown and semanticResults is left as it was.
C7_LexicalFailureSilent ==
    [][\A i \in 1..Len(reqs) :
          MeiliResponse(i, [ok |-> FALSE, hits |-> <<>>]) =>
              /\ meiliSearchResults' = <<>>
              /\ isLoadingMeiliSearch' = FALSE
              /\ toast' = toast
              /\ semanticResults' = semanticResults]_vars

\* a lexical search has just failed over displayed lexical results, with a
\* semantic section displayed and no toast
C7_Witness ==
    /\ IsSettled("lexical", "failed")
    /\ lastEvent.had
    /\ meiliSearchResults = <<>>
    /\ Len(semanticResults) > 0
    /\ ~isLoadingMeiliSearch
    /\ toast = "none"

\* C8: a failed image fetch (no answer, or a malformed body) gives the
\* entry an absent image and does not propagate: the search goes on, stores
\* every entry of the batch on its success path and shows no toast.
ImageFailures == {"malformed", "network"}

C8_ImageFailureAbsorbed ==
    /\ [](lastEvent.stage = "stored" =>
            \A k \in 1..Len(lastEvent.fetched) :
                SettledResults[lastEvent.fetched[k].idx].image = lastEvent.fetched[k].image)
    /\ [][\A i \in 1..Len(reqs) :
             reqs[i].stage = "images" =>
                 \A j \in Pending(reqs[i]) : \A resp \in ImageFailures :
                     ImageResponse(i, j, resp) =>
                         /\ toast' = toast
                         /\ IF reqs'[i] = Done
                            THEN /\ lastEvent'.stage = "stored"
                                 /\ ResultIds(SettledResults') = ResultIds(reqs[i].hits)
                                 /\ SettledResults'[j].image = Absent
                            ELSE /\ reqs'[i].stage = "images"
                                 /\ ImageOf(reqs'[i].fetched, j) = Absent]_vars

\* a lexical search has stored a batch of two although an image fetch failed
C8_Witness ==
    /\ IsSettled("lexical", "stored")
    /\ Len(meiliSearchResults) = 2
    /\ \E k \in 1..Len(lastEvent.fetched) :
          /\ lastEvent.fetched[k].image = Absent
          /\ meiliSearchResults[lastEvent.fetched[k].idx].image = Absent
    /\ toast = "none"

\* C9: whatever the order in which the image fetches of a batch complete,
\* the stored sequence has the ids of the backend's hits in the backend's
\* order, and it is stored only when every image fetch has completed.
C9_OrderPreserved ==
    /\ [](lastEvent.stage = "stored" =>
            /\ ResultIds(SettledResults) = ResultIds(lastEvent.hits)
            /\ FetchedIdx(lastEvent) =
                  {j \in 1..Len(lastEvent.hits) : lastEvent.hits[j].type = "image"})
    /\ [][\A i \in 1..Len(reqs) :
             (reqs'[i] # reqs[i] /\ reqs'[i].stage = "images") =>
                 UNCHANGED <<lexicalVars, semanticVars>>]_vars

\* a batch of two images whose second image arrived first has been stored
C9_Witness ==
    /\ IsSettled("lexical", "stored")
    /\ Len(lastEvent.fetched) = 2
    /\ lastEvent.fetched[1].idx = 2
    /\ lastEvent.fetched[2].idx = 1
    /\ ResultIds(meiliSearchResults) = ResultIds(lastEvent.hits)

\* C10: when the token exchange fails (error field, or failed call) the
\* user is notified, the exchange is not retried and searchClient stays
\* unset, so every later text change leaves meiliSearchResults empty and
\* issues no request.
C10_InitFailureFinal ==
    /\ [](tokenRequest = "failed" =>
            /\ searchClient = Null
            /\ meiliSearchResults = <<>>
            /\ \A i \in 1..Len(reqs) : InFlight(reqs[i]) => reqs[i].kind # "lexical")
    /\ [][/\ \A resp \in {"error", "network"} :
                initializeMeiliSearch(resp) =>
                    /\ toast' = "init"
                    /\ tokenRequest' = "failed"
                    /\ searchClient' = Null
          /\ tokenRequest = "failed" =>
                /\ tokenRequest' = "failed"
                /\ searchClient' = Null
          /\ \A text \in Texts :
                (tokenRequest = "failed" /\ handleSearchTextChange(text)) =>
                    /\ meiliSearchResults' = <<>>
                    /\ reqs' = reqs]_vars

\* a text has been typed after the token exchange failed
C10_Witness ==
    /\ tokenRequest = "failed"
    /\ lastEvent.stage = "typed"
    /\ ~WhitespaceOnly(searchText)
    /\ searchClient = Null
    /\ meiliSearchResults = <<>>
    /\ reqs = <<>>
    /\ toast = "init"

\* C11: searchClient, the credential of the lexical backend, is written
\* once, by the token exchange, and never again: no text change, semantic
\* trigger, search completion or search failure changes or renews it.
C11_ClientWrittenOnce ==
    [][/\ searchClient' # searchClient =>
             /\ searchClient = Null
             /\ tokenRequest = "pending"
             /\ tokenRequest' = "done"
       /\ initializeMeiliSearch("token") =>
             /\ searchClient' = "client"
             /\ tokenRequest' = "done"
       /\ tokenRequest = "done" =>
             /\ tokenRequest' = "done"
             /\ searchClient' = "client"]_vars

\* a semantic search has failed and stale lexical results were typed over,
\* and the client of the token exchange is still in place
C11_Witness ==
    /\ IsSettled("semantic", "failed")
    /\ toast = "semantic"
    /\ Len(meiliSearchResults) > 0
    /\ tokenRequest = "done"
    /\ searchClient = "client"

\* C12 as stated: every text change to a non-blank text issues exactly one
\* index request.
C12_OneRequestPerChange ==
    [][\A text \in Texts :
          (handleSearchTextChange(text) /\ ~WhitespaceOnly(text)) =>
              Len(reqs') = Len(reqs) + 1]_vars

\* C12, amended: no call is retried.  A text change to a non-blank text
\* issues exactly one index request when searchClient is set and none while
\* it is unset; a semantic trigger on a non-blank text issues exactly one
\* /search request; every image hit of a batch is fetched exactly once; the
\* token is requested once; only a user action issues a request, so a
\* failed call is never issued again.
C12_NoRetry ==
    [][/\ \A text \in Texts :
             handleSearchTextChange(text) =>
                 reqs' = IF searchClient # Null /\ ~WhitespaceOnly(text)
                         THEN Append(reqs, NewReq("lexical", text))
                         ELSE reqs
       /\ handleEnterPress =>
             reqs' = IF ~WhitespaceOnly(searchText)
                     THEN Append(reqs, NewReq("semantic", searchText))
                     ELSE reqs
       /\ Len(reqs') > Len(reqs) => (searchText' # searchText \/ handleEnterPress)
       /\ \A i \in 1..Len(reqs) :
             /\ reqs[i] = Done => reqs'[i] = Done
             /\ (reqs[i].stage = "search" /\ reqs'[i].stage = "images") =>
                   /\ reqs'[i].fetched = <<>>
                   /\ Pending(reqs'[i]) =
                         {j \in 1..Len(reqs'[i].hits) : reqs'[i].hits[j].type = "image"}
             /\ (reqs[i].stage = "images" /\ reqs'[i].stage = "images") =>
                   /\ reqs'[i].hits = reqs[i].hits
                   /\ Pending(reqs'[i]) \subseteq Pending(reqs[i])
                   /\ Cardinality(FetchedIdx(reqs'[i])) = Len(reqs'[i].fetched)
       /\ tokenRequest # "pending" => tokenRequest' = tokenRequest]_vars

\* a lexical request has failed and nothing is in flight afterwards
C12_Witness ==
    /\ IsSettled("lexical", "failed")
    /\ ~WhitespaceOnly(searchText)
    /\ Len(reqs) > 0
    /\ AllDone

\* C16: a semantic search dispatched before a text change never populates
\* semanticResults: hits written to semanticResults come from a request
\* whose text is the current searchText.
C16_SemanticMatchesText ==
    (IsSettled("semantic", "stored") /\ Len(semanticResults) > 0) =>
        lastEvent.query = searchText

\* some request is waiting for its answer or for its images
SomeInFlight == \E i \in 1..Len(reqs) : InFlight(reqs[i])

\* C17: while a lexical or semantic request is in flight the loading
\* indicator is on and the "No Results" section is not displayed, also when
\* lexical requests overlap and an earlier one completes first.
C17_LoadingWhileInFlight ==
    SomeInFlight =>
        /\ isLoadingMeiliSearch \/ isLoadingSemanticSearch
        /\ ~NoResultsShown

\* C18: when every request issued is answered, every search dispatched
\* finishes, the loading indicator does not stay on, and once no request is
\* in flight both loading flags are false.
C18_SearchesFinish ==
    /\ [](AllDone => (~isLoadingMeiliSearch /\ ~isLoadingSemanticSearch))
    /\ \A i \in 1..MaxLoad :
          (i <= Len(reqs) /\ InFlight(reqs[i])) ~> (i <= Len(reqs) /\ reqs[i] = Done)
    /\ (isLoadingMeiliSearch \/ isLoadingSemanticSearch) ~>
          (~isLoadingMeiliSearch /\ ~isLoadingSemanticSearch)

\* overlapping requests of both kinds have all finished, the last of them
\* by a failure, and the indicator is off
C18_Witness ==
    /\ Len(reqs) >= 2
    /\ AllDone
    /\ lastEvent.stage = "failed"
    /\ ~isLoadingMeiliSearch
    /\ ~isLoadingSemanticSearch

\* a lexical request of the sequence is waiting for its answer or images
LexicalInFlight(rs) ==
    \E i \in 1..Len(rs) : InFlight(rs[i]) /\ rs[i].kind = "lexical"

\* C19: a text change made before the token exchange completes issues no
\* index request and empties meiliSearchResults; the completion of the
\* exchange issues no request either; so meiliSearchResults stays empty for
\* the text already typed until the next text change.
C19_EarlyTextNeverSearched ==
    [][/\ \A text \in Texts :
             (tokenRequest = "pending" /\ handleSearchTextChange(text)) =>
                 /\ reqs' = reqs
                 /\ meiliSearchResults' = <<>>
       /\ tokenRequest' # tokenRequest =>
             /\ reqs' = reqs
             /\ meiliSearchResults' = meiliSearchResults
       /\ (/\ meiliSearchResults = <<>>
           /\ ~LexicalInFlight(reqs)
           /\ searchText' = searchText) =>
             /\ meiliSearchResults' = <<>>
             /\ ~LexicalInFlight(reqs')]_vars

\* the token has just arrived for a non-blank text typed before it: the
\* client is set, no request was ever issued and no result is displayed
C19_Witness ==
    /\ tokenRequest = "done"
    /\ searchClient = "client"
    /\ ~WhitespaceOnly(searchText)
    /\ reqs = <<>>
    /\ meiliSearchResults = <<>>
    /\ ~isLoadingMeiliSearch

\* C13 as stated: deriving the label of a label gives the label again,
\* whatever the author.
C13_Idempotent ==
    item.stage = "relabelled" => item.again = item.display

\* a text the catch of the display has cut: TruncateAt characters and the
\* ellipsis
AlreadyTruncated(s) ==
    /\ Len(s) = TruncateAt + Len(Ellipsis)
    /\ SubSeq(s, TruncateAt + 1, Len(s)) = Ellipsis

\* C13, amended: deriving the label of a label gives the label again when
\* the label does not parse as a URL, does not contain "yourcommonbase.com"
\* and is at most TruncateAt characters long or already truncated; a
\* hostname longer than TruncateAt is cut by the second derivation.
C13_IdempotentOnDisplayed ==
    (/\ item.stage = "relabelled"
     /\ ~NewURL(item.display).ok
     /\ ~Includes(item.display, Domain)
     /\ Len(item.display) <= TruncateAt \/ AlreadyTruncated(item.display)) =>
        item.again = item.display

\* an author longer than TruncateAt was cut, and its label was derived again
C13_Witness ==
    /\ item.stage = "relabelled"
    /\ "author" \in DOMAIN item.metadata
    /\ Len(item.metadata.author) > TruncateAt
    /\ AlreadyTruncated(item.display)
    /\ item.again = item.display

\* the hostname with a leading "www." removed and nothing else
StripLeadingWww(hostname) ==
    IF Len(hostname) >= Len(Www) /\ SubSeq(hostname, 1, Len(Www)) = Www
    THEN SubSeq(hostname, Len(Www) + 1, Len(hostname))
    ELSE hostname

\* C14: for a non-empty author the label is "Your Commonbase" when the
\* author contains "yourcommonbase.com", also when it parses as a URL;
\* otherwise, when it parses as a URL, the hostname with a leading "www."
\* removed and nothing else; otherwise the author, cut to its first
\* TruncateAt characters plus an ellipsis when it is longer.
C14_LabelAsDescribed ==
    (/\ item.stage = "shown"
     /\ "author" \in DOMAIN item.metadata
     /\ item.metadata.author # <<>>) =>
        item.display =
            IF Includes(item.metadata.author, Domain) THEN YourCommonbase
            ELSE IF NewURL(item.metadata.author).ok
            THEN StripLeadingWww(NewURL(item.metadata.author).hostname)
            ELSE IF Len(item.metadata.author) > TruncateAt
            THEN SubSeq(item.metadata.author, 1, TruncateAt) \o Ellipsis
            ELSE item.metadata.author

\* C15: when the copy of an image fails at any step (the download, the
\* write of the temporary file, the copy of the file to the clipboard), the
\* failure toast is shown, the success toast is not, and Clipboard.copy is
\* then called with the image URL as text.
C15_CopyFailureFallsBack ==
    (copy.stage # "idle" /\ copy.failedAt # "none") =>
        /\ "Failure" \in copy.shown
        /\ "Success" \notin copy.shown
        /\ copy.clipboard # <<>>
        /\ copy.clipboard[Len(copy.clipboard)] = [text |-> copy.imageUrl]

\* the file was written and handed to the clipboard, that copy failed and
\* the fallback has run
C15_Witness ==
    /\ copy.stage = "done"
    /\ copy.failedAt = "clipboard"
    /\ Len(copy.clipboard) = 2
    /\ copy.clipboard[2] = [text |-> copy.imageUrl]
    /\ copy.shown = {"Animated", "Failure"}
====
